---- MODULE Spec2Model ----
(***************************************************************************)
(* Model of app.py: the module-level loader (pipeline and support data)    *)
(* and the /recommend handler (validation, feature row, predict, lookup).  *)
(* Python strings that the code splits, strips or sanitizes are sequences  *)
(* of one-character strings; opaque texts are TLA+ strings.                *)
(***************************************************************************)
EXTENDS Integers, Sequences, FiniteSets, TLC

VARIABLES loader, defined, printed, pipeline, politicas_base,
          all_difficulties, categorical_cols_for_ohe,
          politicas_sugeridas_por_cluster, req

vars == <<loader, defined, printed, pipeline, politicas_base,
          all_difficulties, categorical_cols_for_ohe,
          politicas_sugeridas_por_cluster, req>>

globals == <<pipeline, politicas_base, all_difficulties,
             categorical_cols_for_ohe, politicas_sugeridas_por_cluster>>

(* ---------------------------- bounds ----------------------------------- *)
MaxTags == 2
MaxCols == 1
MaxReqTags == 2
MaxPad == 1
NumWorkers == 2

(* ------------------------ string helpers ------------------------------- *)
Whitespace == {" ", "\t"}

RECURSIVE Replace1(_, _, _)
Replace1(s, c, r) ==
    IF s = <<>> THEN <<>>
    ELSE (IF Head(s) = c THEN r ELSE <<Head(s)>>) \o Replace1(Tail(s), c, r)

RECURSIVE ReplaceDouble(_)
ReplaceDouble(s) ==
    IF Len(s) < 2 THEN s
    ELSE IF s[1] = "_" /\ s[2] = "_"
         THEN <<"_">> \o ReplaceDouble(Tail(Tail(s)))
         ELSE <<s[1]>> \o ReplaceDouble(Tail(s))

RECURSIVE Split(_, _)
Split(s, sep) ==
    IF \A i \in 1..Len(s) : s[i] # sep THEN <<s>>
    ELSE LET i == CHOOSE k \in 1..Len(s) :
                      s[k] = sep /\ \A j \in 1..(k - 1) : s[j] # sep
         IN <<SubSeq(s, 1, i - 1)>> \o Split(SubSeq(s, i + 1, Len(s)), sep)

RECURSIVE LStrip(_)
LStrip(s) == IF s # <<>> /\ Head(s) \in Whitespace THEN LStrip(Tail(s)) ELSE s

RECURSIVE RStrip(_)
RStrip(s) ==
    IF s # <<>> /\ s[Len(s)] \in Whitespace
    THEN RStrip(SubSeq(s, 1, Len(s) - 1)) ELSE s

(* variant: only leading whitespace is removed *)
StripLeadingOnly(s) == LStrip(s)

Strip(s) == RStrip(LStrip(s))

(* ------------------------ JSON / Python values ------------------------- *)
(* t: the type; v: the strings it holds (a str: itself; a list: its items; *)
(* a dict: its keys); n: the number of an int.                             *)
StrV(s) == [t |-> "str", v |-> <<s>>, n |-> 0]
ListV(l) == [t |-> "list", v |-> l, n |-> 0]
DictV(keys) == [t |-> "dict", v |-> keys, n |-> 0]
IntV(i) == [t |-> "int", v |-> <<>>, n |-> i]
NullV == [t |-> "null", v |-> <<>>, n |-> 0]
BoolV == [t |-> "bool", v |-> <<>>, n |-> 1]
IntListV == [t |-> "intlist", v |-> <<>>, n |-> 0]

NaoInformado ==
    StrV(<<"N", "a", "o", " ", "i", "n", "f", "o", "r", "m", "a", "d", "o">>)

DificuldadesKey ==
    <<"D", "i", "f", "i", "c", "u", "l", "d", "a", "d", "e", "s", "_",
      "D", "i", "v", "u", "l", "g", "a", "c", "a", "o", "_",
      "D", "i", "g", "i", "t", "a", "l">>

DificuldadePrefix ==
    <<"D", "i", "f", "i", "c", "u", "l", "d", "a", "d", "e", "_">>

(* variant: the default is used even when the key is present *)
GetAlwaysDefault(obj, key, default) == default

(* data.get(key, default) on a dict modelled as a function *)
Get(obj, key, default) == IF key \in DOMAIN obj THEN obj[key] ELSE default

(* ---------------------- cluster table (lines 40-69) -------------------- *)
PoliticasSugeridas ==
    [c \in 0..3 |->
       CASE c = 0 -> <<"Criar editais especificos para grupos vulneraveis (PCD, baixa renda, sem formacao).",
                       "Garantir bolsas de apoio financeiro para participacao em oficinas e cursos.",
                       "Criar programas de capacitacao inicial em arte e cultura voltados a inclusao social.",
                       "Oferecer apoio logistico (transporte, alimentacao) para participacao em atividades culturais.",
                       "Incentivar projetos de arte comunitaria em bairros perifericos.">>
         [] c = 1 -> <<"Fortalecer canais de divulgacao e formacao tecnica para artistas em inicio de carreira.",
                       "Disponibilizar mentorias com artistas experientes e gestores culturais.",
                       "Incentivar parcerias entre artistas emergentes e instituicoes culturais locais.",
                       "Criar feiras, mostras e festivais voltados a talentos em ascensao.",
                       "Oferecer cursos de capacitacao em gestao de carreira e producao cultural.">>
         [] c = 2 -> <<"Ampliar incentivos a profissionalizacao e registro formal de artistas.",
                       "Criar linhas de microcredito especificas para artistas formalizados.",
                       "Oferecer capacitacao em gestao de carreira, marketing e direitos autorais.",
                       "Promover programas de certificacao de competencias artisticas.",
                       "Incentivar a participacao em cooperativas e associacoes de classe.">>
         [] c = 3 -> <<"Estimular redes de cooperacao entre artistas e produtores culturais.",
                       "Promover intercambios culturais regionais, nacionais e internacionais.",
                       "Fomentar o uso de tecnologias digitais para ampliar o alcance do trabalho artistico.",
                       "Criar programas de residencia artistica em diferentes linguagens.",
                       "Apoiar iniciativas de economia criativa e inovacao cultural.">>]

FallbackRecommendations ==
    <<"Nenhuma politica sugerida para este perfil no momento.">>

(* --------------------- sanitized column name (line 106) ---------------- *)
CleanNameNoPrefix(difficulty) ==
    ReplaceDouble(
      Replace1(Replace1(Replace1(Replace1(Replace1(Replace1(Replace1(
        difficulty, " ", <<"_">>), "/", <<"_">>), "-", <<"_">>),
        "(", <<>>), ")", <<>>), ":", <<>>), ".", <<>>))

CleanDifficultyName(difficulty) ==
    DificuldadePrefix \o CleanNameNoPrefix(difficulty)

(* ------------------ difficulty parsing (lines 100-102) ----------------- *)
RECURSIVE StripAndDropEmpty(_)
StripAndDropEmpty(segs) ==
    IF segs = <<>> THEN <<>>
    ELSE (IF Strip(Head(segs)) # <<>> THEN <<Strip(Head(segs))>> ELSE <<>>)
         \o StripAndDropEmpty(Tail(segs))

ParseDifficulties(val) ==
    IF val.t = "str"
    THEN ListV(StripAndDropEmpty(Split(val.v[1], ",")))
    ELSE val

InputDifficulties(data) == ParseDifficulties(Get(data, DificuldadesKey, ListV(<<>>)))

(* ------------- `difficulty in input_difficulties` (line 107) ----------- *)
IsSubstring(d, s) ==
    \E i \in 1..(Len(s) + 1) :
        i + Len(d) - 1 <= Len(s) /\ SubSeq(s, i, i + Len(d) - 1) = d

(* the operand types on which Python's `in` raises TypeError *)
InRaisesTypeError(val) == val.t \in {"int", "null", "bool"}

Contains(difficulty, val) ==
    CASE val.t \in {"list", "dict"} -> \E i \in 1..Len(val.v) : val.v[i] = difficulty
      [] val.t = "str" -> IsSubstring(difficulty, val.v[1])
      [] OTHER -> FALSE

(* ------------------- feature row (lines 95-107) ------------------------ *)
(* a Python dict: insertion-ordered, assignment to a present key keeps its *)
(* position and replaces its value                                         *)
HasKey(row, key) == \E i \in 1..Len(row) : row[i].key = key

(* variant: every assignment adds a column, present or not *)
DictSetAlwaysAppend(row, key, val) == Append(row, [key |-> key, val |-> val])

DictSet(row, key, val) ==
    IF HasKey(row, key)
    THEN [i \in 1..Len(row) |->
            IF row[i].key = key THEN [key |-> key, val |-> val] ELSE row[i]]
    ELSE Append(row, [key |-> key, val |-> val])

RowGet(row, key) == (CHOOSE e \in {row[i] : i \in 1..Len(row)} : e.key = key).val

RECURSIVE CategoricalEntries(_, _, _)
CategoricalEntries(row, cols, data) ==
    IF cols = <<>> THEN row
    ELSE CategoricalEntries(
             DictSet(row, Head(cols), Get(data, Head(cols), NaoInformado)),
             Tail(cols), data)

DifficultyFlag(difficulty, input_difficulties) ==
    IF Contains(difficulty, input_difficulties) THEN IntV(1) ELSE IntV(0)

RECURSIVE DifficultyEntries(_, _, _)
DifficultyEntries(row, difficulties, input_difficulties) ==
    IF difficulties = <<>> THEN row
    ELSE DifficultyEntries(
             DictSet(row, CleanDifficultyName(Head(difficulties)),
                     DifficultyFlag(Head(difficulties), input_difficulties)),
             Tail(difficulties), input_difficulties)

InputData(cols, difficulties, data) ==
    DifficultyEntries(CategoricalEntries(<<>>, cols, data),
                      difficulties, InputDifficulties(data))

(* the loop of lines 104-107 raises on its first iteration *)
BuildRaises(difficulties, data) ==
    difficulties # <<>> /\ InRaisesTypeError(InputDifficulties(data))

(* ------------------- the loaded model (line 114) ----------------------- *)
Returns(c) == [kind |-> "return", cluster |-> c]
RaisesKeyError == [kind |-> "KeyError", cluster |-> 0]
RaisesException == [kind |-> "Exception", cluster |-> 0]

(* two deterministic models; each maps the row's digest to an outcome *)
ModelTable ==
    [m \in {"mA", "mB"} |->
       CASE m = "mA" -> <<Returns(0), Returns(1), RaisesKeyError, Returns(2)>>
         [] m = "mB" -> <<Returns(3), Returns(7), RaisesException, Returns(-1)>>]

Models == DOMAIN ModelTable

Digest(row) ==
    Cardinality({i \in 1..Len(row) : row[i].val \notin {IntV(0), NaoInformado}})

(* pipeline.predict(input_df)[0]; on None the attribute lookup raises *)
Predict(m, row) ==
    IF m \notin Models THEN RaisesException
    ELSE ModelTable[m][(Digest(row) % Len(ModelTable[m])) + 1]

(* ------------------- responses ----------------------------------------- *)
NoResponse ==
    [status |-> 0, body |-> "none", error |-> FALSE, cluster |-> 0,
     recommendations |-> <<>>, unhandled |-> FALSE]

JsonError(status) ==
    [status |-> status, body |-> "json", error |-> TRUE, cluster |-> 0,
     recommendations |-> <<>>, unhandled |-> FALSE]

(* an HTTPException raised by request.json, rendered by the framework *)
FrameworkError(status) ==
    [status |-> status, body |-> "html", error |-> FALSE, cluster |-> 0,
     recommendations |-> <<>>, unhandled |-> FALSE]

(* an exception that leaves recommend(): the framework's generic 500 page *)
UnhandledError ==
    [status |-> 500, body |-> "html", error |-> FALSE, cluster |-> 0,
     recommendations |-> <<>>, unhandled |-> TRUE]

(* variant: no fallback for a cluster that is not in the table *)
RecommendationsNoFallback(table, predicted_cluster) ==
    IF predicted_cluster \in DOMAIN table
    THEN table[predicted_cluster] ELSE <<>>

Recommendations(table, predicted_cluster) ==
    IF predicted_cluster \in DOMAIN table
    THEN table[predicted_cluster] ELSE FallbackRecommendations

Success(table, predicted_cluster) ==
    [status |-> 200, body |-> "json", error |-> FALSE,
     cluster |-> predicted_cluster,
     recommendations |-> Recommendations(table, predicted_cluster),
     unhandled |-> FALSE]

PredictResponse(table, outcome) ==
    CASE outcome.kind = "return" -> Success(table, outcome.cluster)
      [] outcome.kind = "KeyError" -> JsonError(400)
      [] OTHER -> JsonError(500)

(* ------------------- input universes ----------------------------------- *)
TagAB == <<"a", " ", "b">>
TagADashB == <<"a", "-", "b">>
TagParen == <<"(", "a", ")", ".">>
ColC == <<"c">>
ColClash == <<"D", "i", "f", "i", "c", "u", "l", "d", "a", "d", "e", "_", "a", "_", "b">>

TagUniverse == {TagAB, TagADashB, TagParen}
ReqTagUniverse == {TagAB, TagParen}
ColUniverse == {ColC, ColClash}

SeqsUpTo(S, n) == UNION {[1..k -> S] : k \in 0..n}

(* contents of all_difficulties.json: lists of distinct tags *)
DifficultyLists ==
    {l \in SeqsUpTo(TagUniverse, MaxTags) :
        \A i, j \in 1..Len(l) : l[i] = l[j] => i = j}

(* contents of categorical_cols_for_ohe.json *)
ColumnLists == SeqsUpTo(ColUniverse, MaxCols)

(* lists of non-empty, trimmed, comma-free tags a client may send *)
TagLists == SeqsUpTo(ReqTagUniverse, MaxReqTags)

Pad(n, ch) == [i \in 1..n |-> ch]

Decorations == [pad : 0..MaxPad, empties : BOOLEAN]

RECURSIVE Join(_, _)
Join(items, sep) ==
    IF items = <<>> THEN <<>>
    ELSE IF Len(items) = 1 THEN Head(items)
    ELSE Head(items) \o sep \o Join(Tail(items), sep)

(* a comma-separated rendering of the list l: every item between dec.pad   *)
(* blanks and dec.pad tabs, and, with dec.empties, blank and empty         *)
(* segments before, between and after the items                            *)
CommaString(l, dec) ==
    LET items == [i \in 1..Len(l) |->
                        Pad(dec.pad, " ") \o l[i] \o Pad(dec.pad, "\t")]
    IN IF dec.empties
       THEN <<",", " ", ",">> \o Join(items, <<",", " ", ",">>) \o <<",", ",">>
       ELSE Join(items, <<",">>)

DifValues ==
    {ListV(l) : l \in TagLists}
    \cup {StrV(CommaString(l, dec)) : l \in TagLists, dec \in Decorations}
    \cup {IntV(5), NullV, BoolV, DictV(<<TagAB>>), IntListV}

CatValues == {StrV(<<"x">>), NullV}

Opt(S) == {{}} \cup {{x} : x \in S}

MkObj(cv, dv) ==
    LET pairs == {<<ColC, x>> : x \in cv}
                 \cup {<<DificuldadesKey, x>> : x \in dv}
    IN [k \in {p[1] : p \in pairs} |-> (CHOOSE p \in pairs : p[1] = k)[2]]

Objects ==
    {MkObj(cv, dv) : cv \in Opt(CatValues), dv \in Opt(DifValues)}

Body(kind, obj) == [kind |-> kind, obj |-> obj]

NoBody == Body("none", <<>>)

Bodies ==
    {Body(k, <<>>) : k \in {"missing", "null", "int", "str", "list"}}
    \cup {Body("dict", o) : o \in Objects}

ConcBodies ==
    {Body("missing", <<>>), Body("dict", <<>>),
     Body("dict", MkObj({}, {StrV(CommaString(<<TagAB, TagParen>>,
                        [pad |-> 1, empties |-> FALSE]))})),
     Body("dict", MkObj({}, {ListV(<<TagAB>>)})),
     Body("dict", MkObj({StrV(<<"x">>)}, {})),
     Body("dict", MkObj({}, {IntV(5)}))}

(* what `request.json` (line 88) yields: 0 for a parsed value (None when   *)
(* the framework returns None for a missing body), else the status of the  *)
(* HTTPException the framework raises for a body it cannot parse           *)
RequestJson(body) == IF body.kind = "missing" THEN {0, 400, 415} ELSE {0}

(* variant: the check of line 83 is missing *)
ModelAbsentUnchecked(p) == FALSE

(* `pipeline is None` (line 83) *)
ModelAbsent(p) == p = "None"

(* variant: the empty object is let through *)
IsDictOnly(body) == body.kind = "dict"

(* isinstance(data, dict) and data (line 91) *)
IsNonEmptyDict(body) == body.kind = "dict" /\ DOMAIN body.obj # {}

(* ------------------- state --------------------------------------------- *)
Workers == 1..NumWorkers

Idle ==
    [pc |-> "idle", body |-> NoBody, input_data |-> <<>>, resp |-> NoResponse,
     built |-> FALSE, predicted |-> FALSE]

LoaderNames == {"pipeline", "politicas_base", "all_difficulties",
                "categorical_cols_for_ohe"}

Init ==
    /\ loader = "load_pipeline"
    /\ defined = {}
    /\ printed = [exc |-> "none", step |-> "none"]
    /\ pipeline = "unbound"
    /\ politicas_base = "unbound"
    /\ all_difficulties = <<>>
    /\ categorical_cols_for_ohe = <<>>
    /\ politicas_sugeridas_por_cluster = <<>>
    /\ req = [w \in Workers |-> Idle]

(* ------------------- startup loader (lines 12-35) ---------------------- *)
(* variant: the except branches forget to reset all_difficulties *)
LoadFailedKeepsDifficulties ==
    /\ \E exc \in {"FileNotFoundError", "Exception"} :
          printed' = [exc |-> exc, step |-> loader]
    /\ pipeline' = "None"
    /\ politicas_base' = "empty"
    /\ all_difficulties' = all_difficulties
    /\ categorical_cols_for_ohe' = <<>>
    /\ defined' = LoaderNames
    /\ loader' = "define_table"
    /\ UNCHANGED <<politicas_sugeridas_por_cluster, req>>

(* either except branch (lines 21-29, 30-35); the message names the step *)
LoadFailed ==
    /\ \E exc \in {"FileNotFoundError", "Exception"} :
          printed' = [exc |-> exc, step |-> loader]
    /\ pipeline' = "None"
    /\ politicas_base' = "empty"
    /\ all_difficulties' = <<>>
    /\ categorical_cols_for_ohe' = <<>>
    /\ defined' = LoaderNames
    /\ loader' = "define_table"
    /\ UNCHANGED <<politicas_sugeridas_por_cluster, req>>

LoadPipeline ==
    /\ loader = "load_pipeline"
    /\ \/ \E m \in Models :
             /\ pipeline' = m
             /\ defined' = defined \cup {"pipeline"}
             /\ loader' = "load_politicas"
             /\ UNCHANGED <<printed, politicas_base, all_difficulties,
                            categorical_cols_for_ohe,
                            politicas_sugeridas_por_cluster, req>>
       \/ LoadFailed

LoadPoliticas ==
    /\ loader = "load_politicas"
    /\ \/ /\ politicas_base' = "loaded"
          /\ defined' = defined \cup {"politicas_base"}
          /\ loader' = "load_difficulties"
          /\ UNCHANGED <<printed, pipeline, all_difficulties, categorical_cols_for_ohe,
                         politicas_sugeridas_por_cluster, req>>
       \/ LoadFailed

LoadDifficulties ==
    /\ loader = "load_difficulties"
    /\ \/ \E l \in DifficultyLists :
             /\ all_difficulties' = l
             /\ defined' = defined \cup {"all_difficulties"}
             /\ loader' = "load_cols"
             /\ UNCHANGED <<printed, pipeline, politicas_base, categorical_cols_for_ohe,
                            politicas_sugeridas_por_cluster, req>>
       \/ LoadFailed

LoadCols ==
    /\ loader = "load_cols"
    /\ \/ \E l \in ColumnLists :
             /\ categorical_cols_for_ohe' = l
             /\ defined' = defined \cup {"categorical_cols_for_ohe"}
             /\ loader' = "define_table"
             /\ printed' = [exc |-> "none", step |-> "load_cols"]
             /\ UNCHANGED <<pipeline, politicas_base, all_difficulties,
                            politicas_sugeridas_por_cluster, req>>
       \/ LoadFailed

(* lines 40-69; afterwards the routes are registered and requests served *)
DefineTable ==
    /\ loader = "define_table"
    /\ politicas_sugeridas_por_cluster' = PoliticasSugeridas
    /\ defined' = defined \cup {"politicas_sugeridas_por_cluster"}
    /\ loader' = "serving"
    /\ UNCHANGED <<printed, pipeline, politicas_base, all_difficulties,
                   categorical_cols_for_ohe, req>>

Loader == LoadPipeline \/ LoadPoliticas \/ LoadDifficulties \/ LoadCols
          \/ DefineTable

(* ------------------- recommend() (lines 82-128) ------------------------ *)
(* variant: the parsed list is bound to the module-level name *)
DifficultiesRebound(difficulties, input_difficulties) ==
    IF input_difficulties.t = "list" THEN input_difficulties.v ELSE difficulties

(* recommend() has no `global` statement: input_difficulties (lines        *)
(* 100-102) is a local, the module-level list is left as it is             *)
DifficultiesAfterRequest(difficulties, input_difficulties) == difficulties

Respond(w, body, resp) ==
    req' = [req EXCEPT ![w] = [@ EXCEPT !.pc = "done", !.body = body,
                                        !.resp = resp]]

(* lines 83-92 *)
Receive(w, body) ==
    /\ loader = "serving"
    /\ req[w].pc = "idle"
    /\ IF ModelAbsent(pipeline)
       THEN Respond(w, body, JsonError(503))
       ELSE \E r \in RequestJson(body) :
               IF r # 0 THEN Respond(w, body, FrameworkError(r))
               ELSE IF ~IsNonEmptyDict(body)
                    THEN Respond(w, body, JsonError(400))
                    ELSE req' = [req EXCEPT ![w] =
                                   [@ EXCEPT !.pc = "build", !.body = body]]
    /\ UNCHANGED <<loader, defined, printed, globals>>

(* lines 95-110 *)
BuildRow(w) ==
    /\ req[w].pc = "build"
    /\ LET data == req[w].body.obj IN
       /\ IF BuildRaises(all_difficulties, data)
          THEN Respond(w, req[w].body, UnhandledError)
          ELSE req' = [req EXCEPT ![w] =
                         [@ EXCEPT !.pc = "predict", !.built = TRUE,
                                   !.input_data = InputData(
                                       categorical_cols_for_ohe,
                                       all_difficulties, data)]]
       /\ all_difficulties' =
              DifficultiesAfterRequest(all_difficulties, InputDifficulties(data))
    /\ UNCHANGED <<loader, defined, printed, pipeline, politicas_base,
                   categorical_cols_for_ohe, politicas_sugeridas_por_cluster>>

(* lines 112-128 *)
PredictStep(w) ==
    /\ req[w].pc = "predict"
    /\ req' = [req EXCEPT ![w] =
                 [@ EXCEPT !.pc = "done", !.predicted = TRUE,
                           !.resp = PredictResponse(
                               politicas_sugeridas_por_cluster,
                               Predict(pipeline, req[w].input_data))]]
    /\ UNCHANGED <<loader, defined, printed, globals>>

(* the response is sent; the request's locals are gone *)
Deliver(w) ==
    /\ req[w].pc = "done"
    /\ req' = [req EXCEPT ![w] = Idle]
    /\ UNCHANGED <<loader, defined, printed, globals>>

(* one request at a time, every request body *)
Next ==
    \/ Loader
    \/ \E body \in Bodies : Receive(1, body)
    \/ BuildRow(1)
    \/ PredictStep(1)
    \/ Deliver(1)

Spec == Init /\ [][Next]_vars

(* concurrent requests on every worker *)
NextConc ==
    \/ Loader
    \/ \E w \in Workers :
          \/ \E body \in ConcBodies : Receive(w, body)
          \/ BuildRow(w)
          \/ PredictStep(w)
          \/ Deliver(w)

SpecConc == Init /\ [][NextConc]_vars

(* ======================= properties ==================================== *)
Answered(w) == req[w].pc = "done"
ValidBody(b) == b.kind = "dict" /\ DOMAIN b.obj # {}
RowBuilt(w) == req[w].built
DataOf(w) == req[w].body.obj
HasDif(w) == DificuldadesKey \in DOMAIN DataOf(w)
DifOf(w) == DataOf(w)[DificuldadesKey]
Without(obj, key) == [k \in DOMAIN obj \ {key} |-> obj[k]]
Started == loader \in {"define_table", "serving"}
SanitizedNames == {CleanDifficultyName(all_difficulties[i]) :
                      i \in 1..Len(all_difficulties)}
ColumnNames == {categorical_cols_for_ohe[i] :
                   i \in 1..Len(categorical_cols_for_ohe)}

(* C1: every request with a JSON body ends in 200, 400, 503 or 500, every  *)
(* non-200 answer is a JSON object with an error string, and no exception  *)
(* leaves the handler.                                                      *)
C1_EveryFailureHandled ==
    \A w \in Workers :
        (Answered(w) /\ req[w].body.kind # "missing") =>
            /\ req[w].resp.status \in {200, 400, 503, 500}
            /\ ~req[w].resp.unhandled
            /\ req[w].resp.status # 200 =>
                   (req[w].resp.body = "json" /\ req[w].resp.error)

C3_AbsentModelIs503 ==
    \A w \in Workers :
        pipeline = "None" =>
            /\ req[w].pc \in {"idle", "done"}
            /\ ~req[w].built /\ ~req[w].predicted
            /\ (Answered(w) /\ ValidBody(req[w].body)) =>
                   req[w].resp = JsonError(503)

C3_Witness ==
    \E w \in Workers :
        /\ pipeline = "None" /\ Answered(w)
        /\ ValidBody(req[w].body) /\ HasDif(w)
        /\ req[w].resp.status = 503

(* C4: a difficulties field that is neither a list nor a string is treated *)
(* as the empty list: the request goes on to predict with the row it would *)
(* have without the field.                                                 *)
C4_OtherTypeIsEmpty ==
    \A w \in Workers :
        (req[w].pc \in {"predict", "done"} /\ ValidBody(req[w].body)
            /\ pipeline # "None" /\ HasDif(w)
            /\ DifOf(w).t \notin {"list", "str"}) =>
            /\ req[w].built
            /\ req[w].input_data =
                   InputData(categorical_cols_for_ohe, all_difficulties,
                             Without(DataOf(w), DificuldadesKey))

(* C5: a comma-separated string built from a list of trimmed, comma-free,  *)
(* non-empty tags (any padding, any empty segments) gives the row that the *)
(* list itself gives.                                                      *)
C5_StringEqualsList ==
    \A w \in Workers :
        (RowBuilt(w) /\ HasDif(w) /\ DifOf(w).t = "str") =>
            \A l \in TagLists, dec \in Decorations :
                DifOf(w) = StrV(CommaString(l, dec)) =>
                    req[w].input_data =
                        InputData(categorical_cols_for_ohe, all_difficulties,
                                  [DataOf(w) EXCEPT ![DificuldadesKey] = ListV(l)])

C5_Witness ==
    \E w \in Workers :
        /\ RowBuilt(w) /\ HasDif(w)
        /\ DifOf(w) = StrV(CommaString(<<TagAB, TagParen>>,
                           [pad |-> 1, empties |-> TRUE]))
        /\ all_difficulties = <<TagParen, TagAB>>
        /\ \A i \in 1..Len(req[w].input_data) : req[w].input_data[i].val = IntV(1)

(* C6: a 200 answer carries the predicted cluster and the table's list for *)
(* it (five strings for cluster 0), or the one-item fallback when the id   *)
(* is not in the table; the list is never empty.                           *)
C6_RecommendationsFromTable ==
    \A w \in Workers :
        (Answered(w) /\ req[w].resp.status = 200) =>
            LET out == Predict(pipeline, req[w].input_data) IN
            /\ req[w].predicted /\ out.kind = "return"
            /\ req[w].resp.cluster = out.cluster
            /\ req[w].resp.body = "json"
            /\ req[w].resp.recommendations # <<>>
            /\ out.cluster \in 0..3 =>
                   /\ req[w].resp.recommendations = PoliticasSugeridas[out.cluster]
                   /\ Len(req[w].resp.recommendations) = 5
            /\ out.cluster = 0 =>
                   req[w].resp.recommendations[5] =
                       "Incentivar projetos de arte comunitaria em bairros perifericos."
            /\ out.cluster \notin 0..3 =>
                   req[w].resp.recommendations =
                       <<"Nenhuma politica sugerida para este perfil no momento.">>

C6_Witness ==
    \E w \in Workers :
        /\ Answered(w) /\ req[w].resp.status = 200
        /\ req[w].resp.cluster = 7
        /\ Len(req[w].resp.recommendations) = 1

(* C7: once the loader is over, every loader name is bound, and a failed   *)
(* load step (whichever, whatever loaded before it) leaves the model       *)
(* absent with empty vocabulary and column list; so a non-empty vocabulary *)
(* or column list implies a present model.                                 *)
C7_LoaderAllOrNothing ==
    Started =>
        /\ LoaderNames \subseteq defined
        /\ pipeline \in Models \cup {"None"}
        /\ printed.exc # "none" =>
               /\ pipeline = "None"
               /\ all_difficulties = <<>>
               /\ categorical_cols_for_ohe = <<>>
        /\ (all_difficulties # <<>> \/ categorical_cols_for_ohe # <<>>) =>
               pipeline \in Models

C7_Witness ==
    /\ loader = "serving"
    /\ printed = [exc |-> "Exception", step |-> "load_cols"]
    /\ pipeline = "None"
    /\ \E w \in Workers : Answered(w)

(* C8 as stated: every categorical column holds the request's value, or    *)
(* the sentinel when the request has no such key.                          *)
C8_SentinelForMissing ==
    \A w \in Workers :
        RowBuilt(w) =>
            \A col \in ColumnNames :
                /\ HasKey(req[w].input_data, col)
                /\ RowGet(req[w].input_data, col) =
                       (IF col \in DOMAIN DataOf(w) THEN DataOf(w)[col]
                        ELSE NaoInformado)

(* C8 amended: the same for every categorical column whose name is not the *)
(* sanitized name of a loaded difficulty tag; a column whose name is one   *)
(* holds that tag's 0/1 flag.                                              *)
C8_SentinelUnlessOverwritten ==
    \A w \in Workers :
        RowBuilt(w) =>
            \A col \in ColumnNames :
                /\ HasKey(req[w].input_data, col)
                /\ RowGet(req[w].input_data, col) =
                       (IF col \in SanitizedNames
                        THEN DifficultyFlag(
                                 CHOOSE d \in {all_difficulties[i] :
                                                 i \in 1..Len(all_difficulties)} :
                                     /\ CleanDifficultyName(d) = col
                                     /\ \A j \in 1..Len(all_difficulties) :
                                           CleanDifficultyName(all_difficulties[j]) = col
                                           => \E k \in j..Len(all_difficulties) :
                                                 all_difficulties[k] = d,
                                 InputDifficulties(DataOf(w)))
                        ELSE IF col \in DOMAIN DataOf(w) THEN DataOf(w)[col]
                        ELSE NaoInformado)

C8_Witness ==
    \E w \in Workers :
        /\ RowBuilt(w)
        /\ categorical_cols_for_ohe = <<ColC>>
        /\ ColC \notin DOMAIN DataOf(w)
        /\ RowGet(req[w].input_data, ColC) = NaoInformado
        /\ all_difficulties # <<>>

(* C9 as stated: the row has len(categorical_cols_for_ohe) +               *)
(* len(all_difficulties) keys, whatever the vocabulary.                    *)
C9_OneEntryPerName ==
    \A w \in Workers :
        RowBuilt(w) =>
            Len(req[w].input_data) =
                Len(categorical_cols_for_ohe) + Len(all_difficulties)

NoNameClash ==
    /\ \A i, j \in 1..Len(categorical_cols_for_ohe) :
          categorical_cols_for_ohe[i] = categorical_cols_for_ohe[j] => i = j
    /\ \A i, j \in 1..Len(all_difficulties) :
          CleanDifficultyName(all_difficulties[i]) =
              CleanDifficultyName(all_difficulties[j]) => i = j
    /\ ColumnNames \cap SanitizedNames = {}

(* C9 amended: the row has one key per distinct name among the categorical *)
(* columns and the sanitized tags; when the column names are distinct, the *)
(* sanitized names are distinct and no sanitized name is a column name,    *)
(* that is len(cols) + len(tags) keys, the columns first and then one 0/1  *)
(* entry per tag, in order; otherwise the row has fewer keys.              *)
C9_OneEntryPerDistinctName ==
    \A w \in Workers :
        RowBuilt(w) =>
            LET row == req[w].input_data
                nc == Len(categorical_cols_for_ohe)
                nd == Len(all_difficulties) IN
            /\ Len(row) = Cardinality(ColumnNames \cup SanitizedNames)
            /\ \A i, j \in 1..Len(row) : row[i].key = row[j].key => i = j
            /\ NoNameClash =>
                  /\ Len(row) = nc + nd
                  /\ \A i \in 1..nc : row[i].key = categorical_cols_for_ohe[i]
                  /\ \A j \in 1..nd :
                        /\ row[nc + j].key = CleanDifficultyName(all_difficulties[j])
                        /\ row[nc + j].val \in {IntV(0), IntV(1)}
            /\ ~NoNameClash => Len(row) < nc + nd

C9_Witness ==
    \E w \in Workers :
        /\ RowBuilt(w)
        /\ categorical_cols_for_ohe = <<ColC>>
        /\ all_difficulties = <<TagParen, TagAB>>
        /\ Len(req[w].input_data) = 3

(* C10: while requests are served, in any interleaving, no step changes    *)
(* the model, the vocabulary, the column list or the table, and two        *)
(* answered requests with the same JSON body have the same answer.         *)
SameInputSameAnswer ==
    \A w1, w2 \in Workers :
        (Answered(w1) /\ Answered(w2) /\ req[w1].body = req[w2].body
            /\ req[w1].body.kind # "missing") =>
            req[w1].resp = req[w2].resp

C10_RequestsLeaveGlobalsAlone ==
    [][(loader = "serving" => globals' = globals) /\ SameInputSameAnswer']_vars

C10_Witness ==
    \E w1, w2 \in Workers :
        /\ w1 # w2 /\ Answered(w1) /\ req[w2].pc = "predict"
        /\ req[w1].body = req[w2].body
        /\ req[w1].resp.status = 200
        /\ all_difficulties # <<>>

====
